---- MODULE Spec2Model ----
(***************************************************************************)
(* Model of src/trace.rs: the TraceReader stream decorator, the            *)
(* CounterSubscriber recorder (span registry + call stack behind a         *)
(* Mutex) and the TreeSpan builder run by Drop.                            *)
(***************************************************************************)
EXTENDS Integers, Sequences, FiniteSets, TLC

\* ---------------------------------------------------------------- bounds
\* number of bytes held by the wrapped stream
DataLen == 5
\* new_span is not called once last_id has reached MaxSpans
MaxSpans == 2
\* no event is appended once the logs hold MaxEvents events in total
MaxEvents == 2
\* threads that hold a clone of the CounterSubscriber
NThreads == 2

\* buffer lengths handed to read (read_u8 and read_u32 of the test)
BufSizes == {1, 4}
\* seek requests: SeekFrom::Start(0) and the test's SeekFrom::Current(-1)
SeekFroms == { [from |-> "Start", off |-> 0],
               [from |-> "Current", off |-> -1] }
\* metadata.name() of the k-th scope created: names are opaque to the recorder,
\* so the scopes are created as in the test, read_stuff first and
\* read_nested_stuff by every later call
Callsite(k) == IF k = 1 THEN "read_stuff" ELSE "read_nested_stuff"

VARIABLES
    inner,       \* CounterSubscriberInner: last_id, root_span, spans, metadata, stack
    poisoned,    \* the Mutex around inner is poisoned (a panic happened under the lock)
    reader,      \* the wrapped stream owned by TraceReader
    dropped,     \* Drop for CounterSubscriberInner has run
    aborted,     \* a second panic during unwinding has aborted the process
    trace_json,  \* content written to trace.json: <<>> or <<tree>>
    ret,         \* the last call: what the wrapped stream returned and what the caller got
    direct,      \* history: the same stream driven without the decorator
    n_reports,   \* history: successful reads/seeks made while a scope was active
    n_child,     \* history: enters made on a non-empty stack
    reported,    \* history: per span, the reports and child enters made while it was on top
    scen,        \* history: how far the run has followed test_trace, -1 once it left it
    active,      \* history: the scopes entered and not yet exited, in entry order
    exited,      \* history: the scopes that have been exited at least once
    lock,        \* the thread that holds the MutexGuard of inner, 0 when it is free
    threads      \* per thread: where it is in the recorder method it runs

vars == <<inner, poisoned, reader, dropped, aborted, trace_json, ret, direct,
          n_reports, n_child, reported, scen, active, exited, lock, threads>>

\* ---------------------------------------------------------------- values
Last(s) == s[Len(s)]
Front(s) == SubSeq(s, 1, Len(s) - 1)

\* enum Action<Id>
Read(n) == [k |-> "Read", v |-> n]
Seek(n) == [k |-> "Seek", v |-> n]
Span(id) == [k |-> "Span", v |-> id]

\* enum Action<TreeSpan>: a Span entry owns its subtree
TreeLeaf(a) == [k |-> a.k, v |-> a.v, sub |-> <<>>]
TreeNode(t) == [k |-> "Span", v |-> 0, sub |-> t]

\* ReadSpan::new
ReadSpan_new(name) == [name |-> name, actions |-> <<>>]

\* results of a call
NoRes == [kind |-> "none", val |-> 0, err |-> ""]
Ok(v) == [kind |-> "ok", val |-> v, err |-> ""]
Err(e) == [kind |-> "err", val |-> 0, err |-> e]
Panic(m) == [kind |-> "panic", val |-> 0, err |-> m]

\* HashMap::insert / HashMap::remove
MapInsert(m, key, val) == [i \in DOMAIN m \cup {key} |-> IF i = key THEN val ELSE m[i]]
MapRemove(m, key) == [i \in DOMAIN m \ {key} |-> m[i]]

\* `to as usize`: exact for every offset the stream can produce here
AsUsize(to) == to

\* ------------------------------------------------------- wrapped stream
\* Read::read of the wrapped stream (a Cursor over DataLen bytes); fail is an I/O error
StreamRead(rd, n, fail) ==
    IF fail THEN [reader |-> rd, res |-> Err("Other")]
    ELSE LET avail == IF rd.pos < DataLen THEN DataLen - rd.pos ELSE 0
             got == IF n < avail THEN n ELSE avail
         IN [reader |-> [pos |-> rd.pos + got], res |-> Ok(got)]

\* Seek::seek of the wrapped stream
StreamSeek(rd, pos, fail) ==
    IF fail THEN [reader |-> rd, res |-> Err("Other")]
    ELSE LET base == CASE pos.from = "Start" -> 0
                       [] pos.from = "Current" -> rd.pos
                       [] OTHER -> DataLen
             to == base + pos.off
         IN IF to < 0 THEN [reader |-> rd, res |-> Err("InvalidInput")]
            ELSE [reader |-> [pos |-> to], res |-> Ok(to)]

\* ------------------------------------------------------------- recorder
\* Each operator is the body executed under the lock: the new inner state,
\* the panic message ("" when it returns) and the returned value.
Done(in, v) == [inner |-> in, panic |-> "", val |-> v]
Abort(in, m) == [inner |-> in, panic |-> m, val |-> 0]

\* mutant: a report made with no active scope is silently dropped
read_action_silent(in, size) ==
    IF in.stack = <<>> THEN Done(in, 0)
    ELSE Done([in EXCEPT !.spans[Last(in.stack)].actions = Append(@, Read(size))], 0)

\* mutant: the event goes to the bottom of the stack instead of the top
read_action_bottom(in, size) ==
    IF in.stack = <<>> THEN Abort(in, "unwrap on None")
    ELSE Done([in EXCEPT !.spans[in.stack[1]].actions = Append(@, Read(size))], 0)

read_action(in, size) ==
    IF in.stack = <<>> THEN Abort(in, "unwrap on None")
    ELSE LET current == Last(in.stack)
         IN IF current \notin DOMAIN in.spans THEN Abort(in, "unwrap on None")
            ELSE Done([in EXCEPT !.spans[current].actions = Append(@, Read(size))], 0)

\* mutant: the event goes to the root span instead of the innermost one
seek_action_root(in, to) ==
    IF in.stack = <<>> THEN Abort(in, "unwrap on None")
    ELSE Done([in EXCEPT !.spans[in.root_span].actions = Append(@, Seek(AsUsize(to)))], 0)

\* mutant: the event is put in front of the log instead of at its end
seek_action_front(in, to) ==
    IF in.stack = <<>> THEN Abort(in, "unwrap on None")
    ELSE Done([in EXCEPT !.spans[Last(in.stack)].actions = <<Seek(AsUsize(to))>> \o @], 0)

seek_action(in, to) ==
    IF in.stack = <<>> THEN Abort(in, "unwrap on None")
    ELSE LET current == Last(in.stack)
         IN IF current \notin DOMAIN in.spans THEN Abort(in, "unwrap on None")
            ELSE Done([in EXCEPT !.spans[current].actions = Append(@, Seek(AsUsize(to)))], 0)

\* mutant: a created span is made the current scope at once
new_span_entered(in, name) ==
    LET id == in.last_id + 1
    IN Done([in EXCEPT !.last_id = id,
                       !.spans = MapInsert(@, id, ReadSpan_new(name)),
                       !.metadata = MapInsert(@, id, name),
                       !.stack = Append(@, id)], id)

\* mutant: the id is taken before last_id is incremented
new_span_stale(in, name) ==
    LET id == IF in.last_id = 0 THEN 1 ELSE in.last_id
    IN Done([in EXCEPT !.last_id = in.last_id + 1,
                       !.spans = MapInsert(@, id, ReadSpan_new(name)),
                       !.metadata = MapInsert(@, id, name)], id)

new_span(in, name) ==
    LET id == in.last_id + 1
    IN Done([in EXCEPT !.last_id = id,
                       !.spans = MapInsert(@, id, ReadSpan_new(name)),
                       !.metadata = MapInsert(@, id, name)], id)

\* mutant: the outermost scope is returned instead of the innermost
current_span_bottom(in) ==
    IF in.stack # <<>> THEN Done(in, in.stack[1]) ELSE Done(in, 0)

current_span(in) ==
    IF in.stack # <<>> THEN Done(in, Last(in.stack)) ELSE Done(in, 0)

\* mutant: root_span is set by the first top-level enter only
enter_keeps_root(in, span) ==
    IF in.stack # <<>>
    THEN Done([in EXCEPT !.spans[Last(in.stack)].actions = Append(@, Span(span)),
                         !.stack = Append(@, span)], 0)
    ELSE Done([in EXCEPT !.root_span = IF @ = 0 THEN span ELSE @,
                         !.stack = Append(@, span)], 0)

\* mutant: the scope is pushed before the child link is recorded
enter_push_first(in, span) ==
    IF in.stack # <<>>
    THEN Done([in EXCEPT !.spans[span].actions = Append(@, Span(span)),
                         !.stack = Append(@, span)], 0)
    ELSE Done([in EXCEPT !.root_span = span, !.stack = Append(@, span)], 0)

enter(in, span) ==
    IF in.stack # <<>>
    THEN LET current == Last(in.stack)
         IN IF current \notin DOMAIN in.spans THEN Abort(in, "unwrap on None")
            ELSE Done([in EXCEPT !.spans[current].actions = Append(@, Span(span)),
                                 !.stack = Append(@, span)], 0)
    ELSE Done([in EXCEPT !.root_span = span, !.stack = Append(@, span)], 0)

\* mutant: the popped id is not compared with the exited span
exit_unchecked(in, span) ==
    IF in.stack = <<>> THEN Abort(in, "unwrap on None")
    ELSE Done([in EXCEPT !.stack = Front(@)], 0)

exit(in, span) ==
    IF in.stack = <<>> THEN Abort(in, "unwrap on None")
    ELSE LET popped == [in EXCEPT !.stack = Front(@)]
         IN IF Last(in.stack) # span THEN Abort(popped, "assert_eq") ELSE Done(popped, 0)

\* mutant: the lock is taken without looking at the poison flag
Locked_into_inner(pois, in, body) == body

\* self.inner.lock().unwrap() followed by the body: a poisoned lock panics
\* before the body runs
Locked(pois, in, body) == IF pois THEN Abort(in, "PoisonError") ELSE body

\* ---------------------------------------------------------- TraceReader
\* mutant: the caller gets the buffer length instead of the byte count
TraceReader_read_buflen(rd, n, fail) ==
    LET r == StreamRead(rd, n, fail)
    IN [reader |-> r.reader, wrapped |-> r.res,
        report |-> IF r.res.kind = "ok" THEN <<r.res.val>> ELSE <<>>,
        out |-> IF r.res.kind = "ok" THEN Ok(n) ELSE r.res]

\* impl Read for TraceReader: forward, then report the byte count of an Ok
TraceReader_read(rd, n, fail) ==
    LET r == StreamRead(rd, n, fail)
    IN [reader |-> r.reader, wrapped |-> r.res,
        report |-> IF r.res.kind = "ok" THEN <<r.res.val>> ELSE <<>>,
        out |-> r.res]

\* mutant: the position is reported whether or not the seek succeeded
TraceReader_seek_always(rd, pos, fail) ==
    LET r == StreamSeek(rd, pos, fail)
    IN [reader |-> r.reader, wrapped |-> r.res, report |-> <<r.reader.pos>>, out |-> r.res]

\* impl Seek for TraceReader: forward, then report the offset of an Ok
TraceReader_seek(rd, pos, fail) ==
    LET r == StreamSeek(rd, pos, fail)
    IN [reader |-> r.reader, wrapped |-> r.res,
        report |-> IF r.res.kind = "ok" THEN <<r.res.val>> ELSE <<>>,
        out |-> r.res]

\* ---------------------------------------------------------- tree builder
RECURSIVE into_tree(_, _), into_tree_actions(_, _)

\* TreeSpan::into_tree: [ok, tree (<<>> after a panic), spans (what is left)]
into_tree(id, spans) ==
    IF id \notin DOMAIN spans
    THEN [ok |-> FALSE, tree |-> <<>>, spans |-> spans]
    ELSE LET read_span == spans[id]
             r == into_tree_actions(read_span.actions, MapRemove(spans, id))
         IN [ok |-> r.ok,
             tree |-> IF r.ok THEN <<[name |-> read_span.name, actions |-> r.actions]>>
                      ELSE <<>>,
             spans |-> r.spans]

\* the .into_iter().map(..).collect() of into_tree, front to back
into_tree_actions(actions, spans) ==
    IF actions = <<>> THEN [ok |-> TRUE, actions |-> <<>>, spans |-> spans]
    ELSE LET a == Head(actions)
         IN IF a.k = "Span"
            THEN LET c == into_tree(a.v, spans)
                 IN IF ~c.ok THEN [ok |-> FALSE, actions |-> <<>>, spans |-> c.spans]
                    ELSE LET r == into_tree_actions(Tail(actions), c.spans)
                         IN [ok |-> r.ok,
                             actions |-> IF r.ok THEN <<TreeNode(c.tree)>> \o r.actions
                                         ELSE <<>>,
                             spans |-> r.spans]
            ELSE LET r == into_tree_actions(Tail(actions), spans)
                 IN [ok |-> r.ok,
                     actions |-> IF r.ok THEN <<TreeLeaf(a)>> \o r.actions ELSE <<>>,
                     spans |-> r.spans]

\* Drop for CounterSubscriberInner: [ok, tree, spans]
Inner_drop(in) ==
    IF in.root_span = 0 THEN [ok |-> FALSE, tree |-> <<>>, spans |-> in.spans]
    ELSE into_tree(in.root_span, in.spans)

\* ------------------------------------------------------------- history
RECURSIVE SumLens(_, _)
SumLens(spans, ids) ==
    IF ids = {} THEN 0
    ELSE LET i == CHOOSE x \in ids : TRUE
         IN Len(spans[i].actions) + SumLens(spans, ids \ {i})

TotalEvents == SumLens(inner.spans, DOMAIN inner.spans)

\* the calls of test_trace, as the recorder sees them
Scenario == <<
    [op |-> "new_span", name |-> "read_stuff", n |-> 0],
    [op |-> "enter", name |-> "", n |-> 1],
    [op |-> "read", name |-> "", n |-> 1],
    [op |-> "new_span", name |-> "read_nested_stuff", n |-> 0],
    [op |-> "enter", name |-> "", n |-> 2],
    [op |-> "read", name |-> "", n |-> 4],
    [op |-> "exit", name |-> "", n |-> 2],
    [op |-> "seek", name |-> "", n |-> 0],
    [op |-> "read", name |-> "", n |-> 1],
    [op |-> "exit", name |-> "", n |-> 1],
    [op |-> "drop", name |-> "", n |-> 0] >>

Label(r) ==
    [op |-> r.op, name |-> r.name,
     n |-> IF r.op \in {"read", "seek"}
           THEN (IF r.wrapped.kind = "ok" THEN r.wrapped.val ELSE -1)
           ELSE r.arg]

Follow(r) ==
    IF scen >= 0 /\ scen < Len(Scenario) /\ Scenario[scen + 1] = Label(r)
    THEN scen + 1 ELSE -1

\* s without the innermost active occurrence of span: the scope that an exit
\* notification says has ended
WithoutLast(s, span) ==
    IF \E i \in 1..Len(s) : s[i] = span
    THEN LET k == CHOOSE i \in 1..Len(s) : s[i] = span /\ \A j \in (i + 1)..Len(s) : s[j] # span
         IN SubSeq(s, 1, k - 1) \o SubSeq(s, k + 1, Len(s))
    ELSE s

Call(op, name, arg, wrapped, out) ==
    [op |-> op, name |-> name, arg |-> arg, wrapped |-> wrapped, out |-> out]

Outcome(rec, v) == IF rec.panic # "" THEN Panic(rec.panic) ELSE v

\* -------------------------------------------------------------- threads
Threads == 1..NThreads

\* a thread outside every recorder method; pre is the session as the thread
\* found it when it took the lock
NoInner == [last_id |-> 0, root_span |-> 0, spans |-> <<>>, metadata |-> <<>>,
            stack |-> <<>>]
Idle == [pc |-> "idle", op |-> "none", arg |-> 0, loc |-> 0, panicked |-> FALSE,
         pre |-> NoInner]

\* the whole method, as the single thread of Spec runs it
Apply(op, arg, in) ==
    CASE op = "read_action" -> read_action(in, arg)
      [] op = "seek_action" -> seek_action(in, arg)
      [] op = "new_span" -> new_span(in, Callsite(in.last_id + 1))
      [] op = "current_span" -> current_span(in)
      [] op = "enter" -> enter(in, arg)
      [] OTHER -> exit(in, arg)

\* the statements of a method up to the value it reads from the session
\* (stack.last(), stack.pop(), the incremented last_id), returned as val
first_half(op, arg, in) ==
    CASE op \in {"read_action", "seek_action"} ->
             IF in.stack = <<>> THEN Abort(in, "unwrap on None")
             ELSE Done(in, Last(in.stack))
      [] op = "new_span" -> Done([in EXCEPT !.last_id = @ + 1], in.last_id + 1)
      [] op = "exit" ->
             IF in.stack = <<>> THEN Abort(in, "unwrap on None")
             ELSE Done([in EXCEPT !.stack = Front(@)], Last(in.stack))
      [] OTHER -> Done(in, IF in.stack # <<>> THEN Last(in.stack) ELSE 0)

\* the rest of the method, working on the value loc read by the first half
second_half(op, arg, loc, in) ==
    CASE op = "read_action" ->
             IF loc \notin DOMAIN in.spans THEN Abort(in, "unwrap on None")
             ELSE Done([in EXCEPT !.spans[loc].actions = Append(@, Read(arg))], 0)
      [] op = "seek_action" ->
             IF loc \notin DOMAIN in.spans THEN Abort(in, "unwrap on None")
             ELSE Done([in EXCEPT !.spans[loc].actions = Append(@, Seek(AsUsize(arg)))], 0)
      [] op = "new_span" ->
             Done([in EXCEPT !.spans = MapInsert(@, loc, ReadSpan_new(Callsite(loc))),
                             !.metadata = MapInsert(@, loc, Callsite(loc))], loc)
      [] op = "enter" ->
             IF loc = 0
             THEN Done([in EXCEPT !.root_span = arg, !.stack = Append(@, arg)], 0)
             ELSE IF loc \notin DOMAIN in.spans THEN Abort(in, "unwrap on None")
             ELSE Done([in EXCEPT !.spans[loc].actions = Append(@, Span(arg)),
                                  !.stack = Append(@, arg)], 0)
      [] op = "exit" -> IF loc # arg THEN Abort(in, "assert_eq") ELSE Done(in, 0)
      [] OTHER -> Done(in, loc)

\* ----------------------------------------------------------------- Init
\* CounterSubscriber::read: a default session and a TraceReader over the stream
Init ==
    /\ inner = [last_id |-> 0, root_span |-> 0, spans |-> <<>>, metadata |-> <<>>,
                stack |-> <<>>]
    /\ poisoned = FALSE
    /\ reader = [pos |-> 0]
    /\ dropped = FALSE
    /\ aborted = FALSE
    /\ trace_json = <<>>
    /\ ret = Call("none", "", 0, NoRes, NoRes)
    /\ direct = [pos |-> 0]
    /\ n_reports = 0
    /\ n_child = 0
    /\ reported = <<>>
    /\ scen = 0
    /\ active = <<>>
    /\ exited = {}
    /\ lock = 0
    /\ threads = [t \in Threads |-> Idle]

\* -------------------------------------------------------------- actions
\* The session is driven by the one thread that runs the traced closure.  A
\* panic unwinds that thread: from then on only destructors run, the scope
\* guards (exit) and, last, Drop of the session.  A panic raised while
\* unwinding aborts the process.
Running == ~poisoned /\ ~dropped /\ ~aborted
Unwinding == poisoned /\ ~dropped /\ ~aborted

\* The run of test_trace is explored to its end, every other run until the
\* logs hold MaxEvents events.
Within(call) == TotalEvents < MaxEvents \/ Follow(call) >= 0

Commit(rec, call) ==
    /\ inner' = rec.inner
    /\ poisoned' = (poisoned \/ rec.panic # "")
    /\ aborted' = (poisoned /\ rec.panic # "")
    /\ ret' = call
    /\ scen' = Follow(call)
    /\ UNCHANGED <<dropped, trace_json, lock, threads>>

\* bookkeeping of a report of event ev made by a forwarded call t
Reported(t, ev) ==
    IF t.wrapped.kind = "ok" /\ inner.stack # <<>>
    THEN /\ n_reports' = n_reports + 1
         /\ reported' = [reported EXCEPT ![Last(inner.stack)] = Append(@, ev)]
    ELSE UNCHANGED <<n_reports, reported>>

TraceRead(n, fail) ==
    /\ Running
    /\ LET t == TraceReader_read(reader, n, fail)
           rec == IF t.report = <<>> THEN Done(inner, 0)
                  ELSE Locked(poisoned, inner, read_action(inner, t.report[1]))
           call == Call("read", "", 0, t.wrapped, Outcome(rec, t.out))
       IN /\ rec.inner = inner \/ Within(call)
          /\ reader' = t.reader
          /\ Commit(rec, call)
          /\ Reported(t, Read(t.wrapped.val))
    /\ direct' = StreamRead(direct, n, fail).reader
    /\ UNCHANGED <<n_child, active, exited>>

TraceSeek(pos, fail) ==
    /\ Running
    /\ LET t == TraceReader_seek(reader, pos, fail)
           rec == IF t.report = <<>> THEN Done(inner, 0)
                  ELSE Locked(poisoned, inner, seek_action(inner, t.report[1]))
           call == Call("seek", "", 0, t.wrapped, Outcome(rec, t.out))
       IN /\ rec.inner = inner \/ Within(call)
          /\ reader' = t.reader
          /\ Commit(rec, call)
          /\ Reported(t, Seek(t.wrapped.val))
    /\ direct' = StreamSeek(direct, pos, fail).reader
    /\ UNCHANGED <<n_child, active, exited>>

NewSpan(name) ==
    /\ Running
    /\ LET rec == Locked(poisoned, inner, new_span(inner, name))
           call == Call("new_span", name, 0, NoRes, Outcome(rec, Ok(rec.val)))
       IN /\ inner.last_id < MaxSpans \/ Follow(call) >= 0
          /\ Commit(rec, call)
          /\ reported' = IF rec.panic = "" THEN MapInsert(reported, rec.val, <<>>)
                         ELSE reported
    /\ UNCHANGED <<reader, direct, n_reports, n_child, active, exited>>

CurrentSpan ==
    /\ Running
    /\ LET rec == Locked(poisoned, inner, current_span(inner))
       IN Commit(rec, Call("current_span", "", 0, NoRes, Outcome(rec, Ok(rec.val))))
    /\ UNCHANGED <<reader, direct, n_reports, n_child, reported, active, exited>>

Enter(span) ==
    /\ Running
    /\ LET rec == Locked(poisoned, inner, enter(inner, span))
           call == Call("enter", "", span, NoRes, Outcome(rec, Ok(0)))
       IN /\ inner.stack = <<>> \/ Within(call)
          /\ Commit(rec, call)
          /\ IF inner.stack # <<>>
             THEN /\ n_child' = n_child + 1
                  /\ reported' = [reported EXCEPT ![Last(inner.stack)] =
                                                     Append(@, Span(span))]
             ELSE UNCHANGED <<n_child, reported>>
    /\ active' = Append(active, span)
    /\ UNCHANGED <<reader, direct, n_reports, exited>>

Exit(span) ==
    /\ Running \/ Unwinding
    /\ LET rec == Locked(poisoned, inner, exit(inner, span))
       IN Commit(rec, Call("exit", "", span, NoRes, Outcome(rec, Ok(0))))
    /\ active' = WithoutLast(active, span)
    /\ exited' = IF \E i \in 1..Len(active) : active[i] = span THEN exited \cup {span}
                  ELSE exited
    /\ UNCHANGED <<reader, direct, n_reports, n_child, reported>>

Drop ==
    /\ Running \/ Unwinding
    /\ dropped' = TRUE
    /\ LET r == Inner_drop(inner)
           call == Call("drop", "", 0, NoRes,
                        IF r.ok THEN Ok(0) ELSE Panic("unwrap on None"))
       IN /\ inner' = [inner EXCEPT !.spans = r.spans]
          /\ trace_json' = r.tree
          /\ aborted' = (poisoned /\ ~r.ok)
          /\ ret' = call
          /\ scen' = Follow(call)
    /\ UNCHANGED <<poisoned, reader, direct, n_reports, n_child, reported, active, exited,
                   lock, threads>>

Next ==
    \/ \E n \in BufSizes, fail \in BOOLEAN : TraceRead(n, fail)
    \/ \E pos \in SeekFroms, fail \in BOOLEAN : TraceSeek(pos, fail)
    \/ \E name \in {Callsite(inner.last_id + 1)} : NewSpan(name)
    \/ CurrentSpan
    \/ \E span \in DOMAIN inner.spans : Enter(span)
    \/ \E span \in DOMAIN inner.spans : Exit(span)
    \/ Drop

Spec == Init /\ [][Next]_vars

\* ------------------------------------------- calls on a poisoned session
\* The recorder's methods stay callable after a panic: by a destructor that
\* runs during unwinding, or through another clone of the CounterSubscriber.
\* Each of these calls starts with self.inner.lock().unwrap().
LateCall(rec, call) ==
    /\ Unwinding
    /\ Commit(rec, call)
    /\ UNCHANGED <<reader, direct, n_reports, n_child, reported, active, exited>>

LateReadAction(size) ==
    LET rec == Locked(poisoned, inner, read_action(inner, size))
    IN LateCall(rec, Call("read_action", "", size, NoRes, Outcome(rec, Ok(0))))

LateSeekAction(to) ==
    LET rec == Locked(poisoned, inner, seek_action(inner, to))
    IN LateCall(rec, Call("seek_action", "", to, NoRes, Outcome(rec, Ok(0))))

LateNewSpan(name) ==
    LET rec == Locked(poisoned, inner, new_span(inner, name))
    IN LateCall(rec, Call("new_span", name, 0, NoRes, Outcome(rec, Ok(rec.val))))

LateEnter(span) ==
    LET rec == Locked(poisoned, inner, enter(inner, span))
    IN LateCall(rec, Call("enter", "", span, NoRes, Outcome(rec, Ok(0))))

LateCurrentSpan ==
    LET rec == Locked(poisoned, inner, current_span(inner))
    IN LateCall(rec, Call("current_span", "", 0, NoRes, Outcome(rec, Ok(rec.val))))

NextAfterViolation ==
    \/ Next
    \/ \E size \in BufSizes : LateReadAction(size)
    \/ \E to \in 0..DataLen : LateSeekAction(to)
    \/ \E name \in {Callsite(inner.last_id + 1)} : LateNewSpan(name)
    \/ \E span \in DOMAIN inner.spans : LateEnter(span)
    \/ LateCurrentSpan

SpecAfterViolation == Init /\ [][NextAfterViolation]_vars

\* --------------------------------- several threads on one CounterSubscriber
\* Every method of CounterSubscriber starts with self.inner.lock().unwrap()
\* and keeps the guard in a local until it returns; no method calls another
\* one.  A thread is idle, or inside a method at "read" (guard taken),
\* "write" (first half done), "unlock" (body done, guard about to drop), or
\* dead (it panicked).
InMethod(t) == threads[t].pc \in {"read", "write", "unlock"}

ThreadOps ==
    {[op |-> "read_action", arg |-> 1], [op |-> "seek_action", arg |-> 0],
     [op |-> "new_span", arg |-> 0], [op |-> "current_span", arg |-> 0]}
    \cup {[op |-> o, arg |-> id] : o \in {"enter", "exit"}, id \in DOMAIN inner.spans}

Others == <<ret, reader, direct, dropped, aborted, trace_json, n_reports, n_child,
            reported, scen, active, exited>>

\* mutant: the guard is handed out while another thread holds it
Acquire_unguarded(t, c) ==
    /\ threads[t].pc = "idle"
    /\ c.op \in {"read_action", "seek_action", "enter"} => TotalEvents < MaxEvents
    /\ c.op = "new_span" => inner.last_id < MaxSpans
    /\ IF poisoned
       THEN /\ threads' = [threads EXCEPT ![t] = [Idle EXCEPT !.pc = "dead"]]
            /\ UNCHANGED lock
       ELSE /\ lock' = t
            /\ threads' = [threads EXCEPT ![t] =
                               [Idle EXCEPT !.pc = "read", !.op = c.op, !.arg = c.arg,
                                            !.pre = inner]]
    /\ UNCHANGED <<inner, poisoned>>
    /\ UNCHANGED Others

\* self.inner.lock().unwrap() of call c: blocks while the guard is taken,
\* panics when the Mutex is poisoned
Acquire(t, c) ==
    /\ threads[t].pc = "idle"
    /\ lock = 0
    /\ c.op \in {"read_action", "seek_action", "enter"} => TotalEvents < MaxEvents
    /\ c.op = "new_span" => inner.last_id < MaxSpans
    /\ IF poisoned
       THEN /\ threads' = [threads EXCEPT ![t] = [Idle EXCEPT !.pc = "dead"]]
            /\ UNCHANGED lock
       ELSE /\ lock' = t
            /\ threads' = [threads EXCEPT ![t] =
                               [Idle EXCEPT !.pc = "read", !.op = c.op, !.arg = c.arg,
                                            !.pre = inner]]
    /\ UNCHANGED <<inner, poisoned>>
    /\ UNCHANGED Others

HalfOne(t) ==
    /\ threads[t].pc = "read"
    /\ LET th == threads[t]
           r == first_half(th.op, th.arg, inner)
       IN /\ inner' = r.inner
          /\ poisoned' = (poisoned \/ r.panic # "")
          /\ threads' = [threads EXCEPT ![t] =
                 IF r.panic # "" THEN [th EXCEPT !.pc = "unlock", !.panicked = TRUE]
                 ELSE [th EXCEPT !.pc = "write", !.loc = r.val]]
    /\ UNCHANGED lock
    /\ UNCHANGED Others

HalfTwo(t) ==
    /\ threads[t].pc = "write"
    /\ LET th == threads[t]
           r == second_half(th.op, th.arg, th.loc, inner)
       IN /\ inner' = r.inner
          /\ poisoned' = (poisoned \/ r.panic # "")
          /\ threads' = [threads EXCEPT ![t] =
                 [th EXCEPT !.pc = "unlock", !.panicked = (r.panic # "")]]
    /\ UNCHANGED lock
    /\ UNCHANGED Others

\* the MutexGuard goes out of scope, on return or while the panic unwinds
Release(t) ==
    /\ threads[t].pc = "unlock"
    /\ lock' = IF lock = t THEN 0 ELSE lock
    /\ threads' = [threads EXCEPT ![t] =
           [Idle EXCEPT !.pc = IF threads[t].panicked THEN "dead" ELSE "idle"]]
    /\ UNCHANGED <<inner, poisoned>>
    /\ UNCHANGED Others

NextThreads ==
    \/ \E t \in Threads, c \in ThreadOps : Acquire(t, c)
    \/ \E t \in Threads : HalfOne(t)
    \/ \E t \in Threads : HalfTwo(t)
    \/ \E t \in Threads : Release(t)

SpecThreads == Init /\ [][NextThreads]_vars

\* ================================================================ claims
IsLeaf(a) == a.k # "Span"
Leaves(actions) == SelectSeq(actions, IsLeaf)
IsReport(call) == call.op \in {"read", "seek"}

RECURSIVE TreeLeafCount(_), TreeSpanCount(_), SumLeaf(_), SumSpan(_)
\* number of Read/Seek entries of a tree
TreeLeafCount(t) == SumLeaf(t.actions)
SumLeaf(actions) ==
    IF actions = <<>> THEN 0
    ELSE (IF Head(actions).k = "Span" THEN TreeLeafCount(Head(actions).sub[1]) ELSE 1)
         + SumLeaf(Tail(actions))
\* number of Span entries of a tree
TreeSpanCount(t) == SumSpan(t.actions)
SumSpan(actions) ==
    IF actions = <<>> THEN 0
    ELSE (IF Head(actions).k = "Span" THEN 1 + TreeSpanCount(Head(actions).sub[1]) ELSE 0)
         + SumSpan(Tail(actions))

RECURSIVE InReportedOrder(_, _)
\* tree t is span id as it was observed: same entries, same order, all the way down
InReportedOrder(t, id) ==
    /\ Len(t.actions) = Len(reported[id])
    /\ \A i \in 1..Len(t.actions) :
          IF reported[id][i].k = "Span"
          THEN /\ t.actions[i].k = "Span"
               /\ InReportedOrder(t.actions[i].sub[1], reported[id][i].v)
          ELSE t.actions[i] = TreeLeaf(reported[id][i])

\* C1: after teardown of a session that had a scope and no protocol violation,
\* the tree holds exactly the n_reports reported Read/Seek entries, one Span
\* entry per enter made on a non-empty stack, and every span's entries in the
\* order in which they were reported.
C1_TreeHoldsEveryReport ==
    (dropped /\ ~poisoned /\ inner.root_span # 0) =>
        /\ trace_json # <<>>
        /\ TreeLeafCount(trace_json[1]) = n_reports
        /\ TreeSpanCount(trace_json[1]) = n_child
        /\ InReportedOrder(trace_json[1], inner.root_span)

ExpectedTree ==
    [name |-> "read_stuff",
     actions |-> << TreeLeaf(Read(1)),
                    TreeNode(<<[name |-> "read_nested_stuff",
                                actions |-> <<TreeLeaf(Read(4))>>]>>),
                    TreeLeaf(Seek(0)),
                    TreeLeaf(Read(1)) >>]

\* C2: the calls of test_trace followed by teardown write the tree
\* {read_stuff: [Read(1), Span({read_nested_stuff: [Read(4)]}), Seek(0), Read(1)]}.
C2_TestTraceTree == (scen = Len(Scenario)) => trace_json = <<ExpectedTree>>

C2_Witness == scen = Len(Scenario) /\ dropped /\ trace_json # <<>>

\* C3 as stated: every read/seek on TraceReader, whatever the state of the
\* recorder, hands the caller exactly what the wrapped stream returned and
\* leaves the wrapped stream as if it had been driven directly.
C3_AlwaysReturnsWrapped ==
    /\ reader = direct
    /\ IsReport(ret) => ret.out = ret.wrapped

\* C3 amended: the wrapped stream always ends as if driven directly; an error
\* is always handed on unchanged and so is a value when a scope is active;
\* a value obtained with an empty call stack is not returned, the call panics.
C3_ObserverWhileScopeActive ==
    /\ reader = direct
    /\ IsReport(ret) =>
          IF ret.wrapped.kind = "ok" /\ inner.stack = <<>>
          THEN ret.out = Panic("unwrap on None")
          ELSE ret.out = ret.wrapped

C3_Witness ==
    /\ ret.op = "read" /\ ret.wrapped = Ok(1) /\ ret.out = Ok(1)
    /\ inner.stack # <<>> /\ reader.pos = DataLen

\* C4: a read or seek that fails in the wrapped stream returns that error and
\* leaves last_id, root_span, spans, metadata, stack and the lock as they were.
C4_ErrorLeavesSession ==
    [][(IsReport(ret') /\ ret'.wrapped.kind = "err") =>
          /\ ret'.out = ret'.wrapped
          /\ inner' = inner
          /\ poisoned' = poisoned
          /\ reader' = reader]_vars

C4_Witness ==
    /\ ret.op = "seek" /\ ret.out = Err("InvalidInput")
    /\ inner.stack # <<>> /\ TotalEvents > 0 /\ ~poisoned

C6_NoScopeAborts ==
    [][/\ (IsReport(ret') /\ ret'.wrapped.kind = "ok" /\ inner.stack = <<>>) =>
             (ret'.out = Panic("unwrap on None") /\ inner' = inner /\ poisoned')
       /\ \A id \in DOMAIN inner.spans \cap DOMAIN inner'.spans :
             Leaves(inner'.spans[id].actions) # Leaves(inner.spans[id].actions) =>
                 (inner.stack # <<>> /\ id = Last(inner.stack))]_vars

C6_Witness ==
    /\ ret.op = "seek" /\ ret.wrapped.kind = "ok" /\ ret.out = Panic("unwrap on None")
    /\ inner.stack = <<>> /\ inner.root_span # 0 /\ TotalEvents > 0

\* C7: exit(s) returns only when s is the top of the stack, and then it removes
\* exactly that element and touches no log; with another top or an empty stack
\* it panics.
C7_ExitOnlyTop ==
    [][ret'.op = "exit" =>
          IF ~poisoned /\ inner.stack # <<>> /\ Last(inner.stack) = ret'.arg
          THEN ret'.out.kind = "ok" /\ inner' = [inner EXCEPT !.stack = Front(@)]
          ELSE ret'.out.kind = "panic" /\ inner'.spans = inner.spans]_vars

C7_Witness ==
    /\ ret.op = "exit" /\ ret.out.kind = "ok" /\ ret.arg = 2
    /\ inner.stack = <<1>> /\ TotalEvents > 1

\* C8: once root_span is set it keeps its value.
C8_RootNeverChanges ==
    [][inner.root_span # 0 => inner'.root_span = inner.root_span]_vars

\* C9: new_span increments last_id once and returns it: an id greater than
\* every id issued before, not yet in the registry, and no existing record is
\* touched.
C9_FreshIds ==
    [][(ret'.op = "new_span" /\ ret'.out.kind = "ok") =>
          /\ inner'.last_id = inner.last_id + 1
          /\ ret'.out.val = inner'.last_id
          /\ \A id \in DOMAIN reported : id < ret'.out.val
          /\ ret'.out.val \notin DOMAIN inner.spans
          /\ DOMAIN inner'.spans = DOMAIN inner.spans \cup {ret'.out.val}
          /\ \A id \in DOMAIN inner.spans : inner'.spans[id] = inner.spans[id]]_vars

C9_Witness ==
    /\ ret.op = "new_span" /\ ret.out = Ok(2)
    /\ DOMAIN inner.spans = {1, 2} /\ inner.spans[1].actions # <<>>

\* ids linked as a child from the log of p
Children(p) ==
    {inner.spans[p].actions[i].v :
        i \in {j \in 1..Len(inner.spans[p].actions) : inner.spans[p].actions[j].k = "Span"}}

RECURSIVE Reach(_, _)
Reach(frontier, seen) ==
    IF frontier \subseteq seen THEN seen
    ELSE Reach(UNION {Children(p) : p \in frontier \cap DOMAIN inner.spans} \ (seen \cup frontier),
               seen \cup frontier)

\* ids linked, directly or through other spans, below id
Descendants(id) == Reach(Children(id), {})

\* the places <<p, i>> where the log of p links id as a child
LinksTo(id) ==
    UNION { { <<p, i>> : i \in {j \in 1..Len(inner.spans[p].actions) :
                                   inner.spans[p].actions[j] = Span(id)} } :
            p \in DOMAIN inner.spans }

\* C10: before teardown every id is linked as a child at most once, and never
\* from its own log or the log of one of its descendants; teardown of a
\* session with a root then finds every record it looks up.
C10_EachRecordRemovedOnce ==
    /\ ~dropped =>
          \A id \in DOMAIN inner.spans :
              /\ Cardinality(LinksTo(id)) <= 1
              /\ id \notin Children(id)
              /\ \A d \in Descendants(id) : d \in DOMAIN inner.spans => id \notin Children(d)
    /\ (ret.op = "drop" /\ inner.root_span # 0) => ret.out.kind = "ok"

\* C11: teardown with root_span unset panics and writes no tree; teardown with
\* root_span set writes the tree of that root: its name and as many entries as
\* the root's log holds.
C11_TeardownFromRoot ==
    [][(ret'.op = "drop" /\ ~dropped) =>
          IF inner.root_span = 0
          THEN ret'.out.kind = "panic" /\ trace_json' = <<>>
          ELSE /\ trace_json' # <<>>
               /\ trace_json'[1].name = inner.spans[inner.root_span].name
               /\ Len(trace_json'[1].actions) =
                      Len(inner.spans[inner.root_span].actions)]_vars

IsPrefix(s, t) == Len(s) <= Len(t) /\ SubSeq(t, 1, Len(s)) = s

\* C12: across every step the log of each span is a prefix of its log after
\* the step, and until teardown every log lists its events in the order in
\* which the operations completed while the span was the innermost scope.
C12_LogsAppendOnly ==
    [][/\ \A id \in DOMAIN inner.spans \cap DOMAIN inner'.spans :
             IsPrefix(inner.spans[id].actions, inner'.spans[id].actions)
       /\ ~dropped' => \A id \in DOMAIN inner'.spans :
                          inner'.spans[id].actions = reported'[id]]_vars

C12_Witness ==
    /\ ret.op = "seek" /\ ret.out = Ok(3)
    /\ inner.stack = <<1>>
    /\ inner.spans[1].actions = <<Read(4), Seek(3)>>
    /\ reported[1] = <<Read(4), Seek(3)>>

\* C13: new_span adds the new id with an empty log and its metadata and
\* changes nothing else; the stack grows only in an enter step; a log grows
\* only for the span on top of the stack, so a span that is created and not
\* entered keeps an empty log.
C13_CreationOnlyAllocates ==
    [][/\ (ret'.op = "new_span" /\ ret'.out.kind = "ok") =>
             /\ inner'.stack = inner.stack
             /\ inner'.root_span = inner.root_span
             /\ DOMAIN inner'.spans = DOMAIN inner.spans \cup {ret'.out.val}
             /\ \A id \in DOMAIN inner.spans : inner'.spans[id] = inner.spans[id]
             /\ inner'.spans[ret'.out.val].actions = <<>>
             /\ inner'.metadata[ret'.out.val] = ret'.name
       /\ Len(inner'.stack) > Len(inner.stack) => ret'.op = "enter"
       /\ \A id \in DOMAIN inner.spans \cap DOMAIN inner'.spans :
             inner'.spans[id].actions # inner.spans[id].actions =>
                 (inner.stack # <<>> /\ Last(inner.stack) = id)
       /\ \A id \in DOMAIN inner'.spans :
             (id \notin exited' /\ \A i \in 1..Len(active') : active'[i] # id) =>
                 inner'.spans[id].actions = <<>>]_vars

C13_Witness ==
    /\ ret.op = "new_span" /\ ret.out = Ok(2)
    /\ inner.stack = <<1>> /\ inner.root_span = 1
    /\ inner.spans[1].actions = <<Read(1)>>
    /\ inner.spans[2].actions = <<>>
    /\ active = <<1>>

\* C14: enter(s) with top p appends Span(s) to the log of p and pushes s,
\* leaving root_span and every other log alone; enter(s) on an empty stack
\* sets root_span to s, pushes s and appends nothing; and in the tree that
\* teardown writes the Span entries are exactly the enters made on a
\* non-empty stack, each under the span that was on top.
C14_EnterLinksChildToTop ==
    [][/\ (ret'.op = "enter" /\ ret'.out.kind = "ok") =>
             IF inner.stack # <<>>
             THEN inner' = [inner EXCEPT
                               !.spans[Last(inner.stack)].actions =
                                   Append(@, Span(ret'.arg)),
                               !.stack = Append(@, ret'.arg)]
             ELSE inner' = [inner EXCEPT !.root_span = ret'.arg,
                                         !.stack = <<ret'.arg>>]
       /\ (ret'.op = "drop" /\ ~dropped /\ trace_json' # <<>>) =>
             /\ TreeSpanCount(trace_json'[1]) = n_child
             /\ InReportedOrder(trace_json'[1], inner.root_span)]_vars

\* C15 as stated: in every reachable state the call stack is the sequence of
\* scopes entered and not yet exited, and current_span returns its last
\* element, or none when no scope is active.
C15_StackIsActiveScopes ==
    /\ inner.stack = active
    /\ (ret.op = "current_span" /\ ret.out.kind = "ok") =>
           ret.out.val = IF active = <<>> THEN 0 ELSE Last(active)

\* C15, amended: the same, in every state reached without a protocol
\* violation (the lock is not poisoned).
C15_StackIsActiveUntilViolation == ~poisoned => C15_StackIsActiveScopes

C15_Witness ==
    /\ ret.op = "current_span" /\ ret.out = Ok(2)
    /\ inner.stack = <<1, 2>> /\ active = <<1, 2>>
    /\ ~poisoned

C20_StackIsTreePath ==
    (~dropped /\ inner.stack # <<>>) =>
        /\ inner.stack[1] = inner.root_span
        /\ \A i \in 1..(Len(inner.stack) - 1) :
              \E j \in 1..Len(inner.spans[inner.stack[i]].actions) :
                  inner.spans[inner.stack[i]].actions[j] = Span(inner.stack[i + 1])

C20_Witness ==
    /\ inner.stack = <<1, 2>> /\ inner.root_span = 1 /\ ~dropped
    /\ inner.spans[1].actions = <<Read(1), Span(2)>>
    /\ inner.spans[2].actions = <<Read(4)>>

\* C18: teardown runs once and no step follows it; when it runs after the
\* traced operation has returned (no scope active, no panic) in a session
\* that had a scope, also after a read or seek error, it writes a tree that
\* holds every event recorded before.
C18_TeardownOnceWithEveryEvent ==
    [][/\ ~dropped
       /\ ret'.op = "drop" => dropped'
       /\ (ret'.op = "drop" /\ ~poisoned /\ active = <<>> /\ inner.root_span # 0) =>
             /\ trace_json' # <<>>
             /\ TreeLeafCount(trace_json'[1]) + TreeSpanCount(trace_json'[1])
                    = TotalEvents]_vars

\* C19: once the lock is poisoned by a protocol violation, every later call
\* of a recorder method panics and leaves the logs, the call stack and
\* root_span as they were.
C19_NothingRecordedAfterViolation ==
    [][(poisoned /\ ret'.op # "drop") =>
          /\ ret'.out = Panic("PoisonError")
          /\ inner'.spans = inner.spans
          /\ inner'.stack = inner.stack
          /\ inner'.root_span = inner.root_span]_vars

C19_Witness ==
    /\ ret.op = "read_action" /\ ret.out = Panic("PoisonError")
    /\ poisoned /\ inner.stack = <<1>> /\ active = <<2>>
    /\ inner.spans[1].actions = <<Span(2)>>

\* C17: with several threads on one CounterSubscriber, at most one thread is
\* inside a method body and it is the holder of the guard; a thread outside
\* a method does not hold the guard; the session changes only in a step of
\* the holder; and when a method body ends, the session is what the whole
\* method makes of the session found when the guard was taken, so the final
\* state is that of the methods run one after another in the order in which
\* they took the guard.
C17_OneAtATimeAndSerial ==
    [][/\ Cardinality({t \in Threads : threads'[t].pc \in {"read", "write", "unlock"}}) <= 1
       /\ \A t \in Threads :
             /\ (threads'[t].pc \in {"read", "write", "unlock"}) <=> (lock' = t)
             /\ (threads[t].pc = "idle" /\ threads'[t].pc = "read") =>
                    (lock = 0 /\ threads'[t].pre = inner)
             /\ (threads[t].pc \in {"read", "write"} /\ threads'[t].pc = "unlock") =>
                    LET r == Apply(threads[t].op, threads[t].arg, threads[t].pre)
                    IN /\ inner' = r.inner
                       /\ threads'[t].panicked = (r.panic # "")
       /\ inner' # inner => (lock # 0 /\ threads'[lock] # threads[lock])
       /\ lock' = 0 => \A t \in Threads : threads'[t].pc \in {"idle", "dead"}]_vars

C17_Witness ==
    /\ lock = 2 /\ threads[2].pc = "write" /\ threads[2].op = "read_action"
    /\ threads[2].loc = 2 /\ threads[1].pc = "idle"
    /\ inner.stack = <<1, 2>>
    /\ inner.spans[1].actions = <<Span(2)>>
    /\ inner.spans[2].actions = <<>>
====
